---- MODULE Spec2Model ----
(***************************************************************************)
(* A model of pymodbus' register-write messages                            *)
(* (pymodbus/register_write_message.py) and of the device control block    *)
(* (trunk/pymodbus/device.py).                                             *)
(*                                                                         *)
(* Four state machines share the variables of this module:                 *)
(*   Spec       a request object is constructed and/or decoded, then       *)
(*              executed against a datastore context the caller supplies   *)
(*   SpecCodec  the 4-byte messages: encode, then decode                   *)
(*   SpecLog    the ModbusControlBlock singleton: long runs of addEvent    *)
(*   SpecCB     the ModbusControlBlock singleton: all its operations       *)
(***************************************************************************)
EXTENDS Integers, Sequences, FiniteSets, TLC

VARIABLES
    req,        \* the request object (WriteSingle/WriteMultipleRegistersRequest)
    wire,       \* the byte buffer last handed to decode, or produced by encode
    ctxIn,      \* the datastore context handed to the last execute call
    ctxOut,     \* that context after the call, with the log of the calls made
    result,     \* what the last operation on req returned or raised
    msg,        \* codec: the message object that is encoded
    decoded,    \* codec: the message object that decode filled in
    events,     \* ModbusControlBlock.__events, newest first
    counters,   \* ModbusCountersHandler.__data: counter index 0..8 -> value
    diagnostic, \* ModbusControlBlock.__diagnostic: 16 booleans (index 0..15)
    mode,       \* ModbusControlBlock.__mode
    delimiter,  \* ModbusControlBlock.__delimiter, a string as its character codes
    listen_only,\* ModbusControlBlock.__listen_only
    identity,   \* ModbusDeviceIdentification.__data: key -> string
    nadded,     \* history: addEvent calls so far (the n-th event added is n)
    nsince,     \* history: addEvent calls since the last reset
    updated,    \* history: CountersHandler.update was called since the last reset
    nmstable,   \* ModbusAccessControl.__nmstable: the list of allowed hosts
    pc,         \* concurrent addEvent: handler -> the step it is at
    tmpEvents,  \* concurrent addEvent: handler -> the slice it has taken
    tmpCount,   \* concurrent addEvent: handler -> the Event counter it has read
    lastArg,    \* history: the argument of the operation performed last
    lastRet,    \* history: what it returned
    lastOp      \* history: the operation performed last

pduVars == <<req, wire, ctxIn, ctxOut, result>>
codecVars == <<msg, decoded>>
cbVars == <<events, counters, diagnostic, mode, delimiter, listen_only, identity,
            nadded, nsince, updated>>
acVars == <<nmstable>>
concVars == <<pc, tmpEvents, tmpCount>>
callVars == <<lastArg, lastRet>>
vars == <<req, wire, ctxIn, ctxOut, result, msg, decoded, events, counters,
          diagnostic, mode, delimiter, listen_only, identity, nadded, nsince,
          updated, nmstable, pc, tmpEvents, tmpCount, lastArg, lastRet, lastOp>>

(***************************************************************************)
(* Program constants                                                       *)
(***************************************************************************)
MaxU16 == 65535
RegMax == 123
SingleFC == 6
MultiFC == 16
EventLogMax == 64
DiagnosticLen == 16

(***************************************************************************)
(* Bounds of the model                                                     *)
(***************************************************************************)
StoreSize == 130
MaxRegs == 125
MaxDecodes == 2
MaxEvents == 70
MaxBurst == 2
MaxCount == 3

Min(a, b) == IF a <= b THEN a ELSE b

(***************************************************************************)
(* struct.pack / struct.unpack, big-endian                                 *)
(***************************************************************************)
InU16(x) == 0 <= x /\ x <= MaxU16

\* mutant: the low byte first (little-endian)
PackH_littleEndian(x) == <<x % 256, x \div 256>>

\* struct.pack('>H', x) for x in 0..65535: high byte first
PackH(x) == <<x \div 256, x % 256>>

\* struct.unpack('>H', b)[0] for a 2-byte string b
UnpackH(b) == b[1] * 256 + b[2]

\* struct.pack('>HH', a, b)
PackHH(a, b) == PackH(a) \o PackH(b)

\* data[lo:hi] of Python (0-based, hi exclusive, clipped to the data)
Slice(data, lo, hi) == SubSeq(data, lo + 1, Min(hi, Len(data)))

(***************************************************************************)
(* Results of an operation: a response object, an exception response       *)
(* (doException), or a raised Python error                                 *)
(***************************************************************************)
NoResult == [type |-> "none", code |-> "", address |-> 0, value |-> 0, count |-> 0]

\* ModbusRequest.doException(code): the exception response
doException(code) == [NoResult EXCEPT !.type = "exception", !.code = code]

\* a Python error raised out of the operation
Raise(err) == [NoResult EXCEPT !.type = "raise", !.code = err]

WriteSingleRegisterResponse_init(address, value) ==
    [NoResult EXCEPT !.type = "WriteSingleRegisterResponse",
                     !.address = address, !.value = value]

WriteMultipleRegistersResponse_init(address, count) ==
    [NoResult EXCEPT !.type = "WriteMultipleRegistersResponse",
                     !.address = address, !.count = count]

\* WriteSingleRegisterResponse.encode
WriteSingleRegisterResponse_encode(r) == PackHH(r.address, r.value)

\* WriteMultipleRegistersResponse.encode
WriteMultipleRegistersResponse_encode(r) == PackHH(r.address, r.count)

\* WriteSingleRegisterResponse.decode, data of 4 bytes
WriteSingleRegisterResponse_decode(r, data) ==
    [r EXCEPT !.address = UnpackH(Slice(data, 0, 2)),
              !.value = UnpackH(Slice(data, 2, 4))]

\* WriteMultipleRegistersResponse.decode, data of 4 bytes
WriteMultipleRegistersResponse_decode(r, data) ==
    [r EXCEPT !.address = UnpackH(Slice(data, 0, 2)),
              !.count = UnpackH(Slice(data, 2, 4))]

(***************************************************************************)
(* The datastore context: validate / setValues / getValues.  A context is  *)
(* a block of `size` holding registers starting at address 0; it stores a  *)
(* written value clamped to its `ceiling`, and keeps a log of the calls    *)
(* made on it.                                                             *)
(***************************************************************************)
Call(op, fn, address, count, values) ==
    [op |-> op, fn |-> fn, address |-> address, count |-> count, values |-> values]

Logged(ctx, call) == [ctx EXCEPT !.log = Append(@, call)]

\* validate(fn, address, count=1) -> bool
ctx_validate(ctx, fn, address, count) ==
    [ctx |-> Logged(ctx, Call("validate", fn, address, count, <<>>)),
     ret |-> (0 <= address /\ address + count <= ctx.size)]

\* setValues(fn, address, values)
ctx_setValues(ctx, fn, address, values) ==
    Logged([ctx EXCEPT !.regs = [a \in DOMAIN ctx.regs |->
                IF address <= a /\ a < address + Len(values)
                THEN Min(values[a - address + 1], ctx.ceiling)
                ELSE ctx.regs[a]]],
           Call("setValues", fn, address, Len(values), values))

\* getValues(fn, address, count=1) -> values
ctx_getValues(ctx, fn, address, count) ==
    [ctx |-> Logged(ctx, Call("getValues", fn, address, count, <<>>)),
     ret |-> [i \in 1..count |-> ctx.regs[address + i - 1]]]

NoContext == [size |-> 0, ceiling |-> 0, regs |-> <<>>, log |-> <<>>]

\* what an execute call leaves behind: its return value and the context
\* after the calls it made
Outcome(res, ctx) == [result |-> res, ctx |-> ctx]

(***************************************************************************)
(* WriteSingleRegisterRequest                                              *)
(***************************************************************************)
NoRequest ==
    [kind |-> "none", address |-> 0, value |-> 0, registers |-> <<>>,
     has_byte_count |-> FALSE, byte_count |-> 0, decodes |-> 0]

WriteSingleRegisterRequest_init(address, value) ==
    [NoRequest EXCEPT !.kind = "WriteSingleRegisterRequest",
                      !.address = address, !.value = value]

WriteSingleRegisterRequest_encode(r) == PackHH(r.address, r.value)

\* self.address, self.value = struct.unpack('>HH', data), data of 4 bytes
WriteSingleRegisterRequest_decode(r, data) ==
    [r EXCEPT !.address = UnpackH(Slice(data, 0, 2)),
              !.value = UnpackH(Slice(data, 2, 4)),
              !.decodes = @ + 1]

\* mutant: the address is validated before the value range is checked
WriteSingleRegisterRequest_execute_validateFirst(r, ctx) ==
    LET v == ctx_validate(ctx, SingleFC, r.address, 1)
    IN IF ~v.ret
       THEN Outcome(doException("IllegalAddress"), v.ctx)
       ELSE IF ~(0 <= r.value /\ r.value <= MaxU16)
       THEN Outcome(doException("IllegalValue"), v.ctx)
       ELSE LET w == ctx_setValues(v.ctx, SingleFC, r.address, <<r.value>>)
                g == ctx_getValues(w, SingleFC, r.address, 1)
            IN Outcome(WriteSingleRegisterResponse_init(r.address, g.ret[1]),
                       g.ctx)

\* mutant: the response echoes the requested value, not the value read back
WriteSingleRegisterRequest_execute_echoRequest(r, ctx) ==
    IF ~(0 <= r.value /\ r.value <= MaxU16)
    THEN Outcome(doException("IllegalValue"), ctx)
    ELSE LET v == ctx_validate(ctx, SingleFC, r.address, 1)
         IN IF ~v.ret
            THEN Outcome(doException("IllegalAddress"), v.ctx)
            ELSE LET w == ctx_setValues(v.ctx, SingleFC, r.address, <<r.value>>)
                     g == ctx_getValues(w, SingleFC, r.address, 1)
                 IN Outcome(WriteSingleRegisterResponse_init(r.address, r.value),
                            g.ctx)

WriteSingleRegisterRequest_execute(r, ctx) ==
    IF ~(0 <= r.value /\ r.value <= MaxU16)
    THEN Outcome(doException("IllegalValue"), ctx)
    ELSE LET v == ctx_validate(ctx, SingleFC, r.address, 1)
         IN IF ~v.ret
            THEN Outcome(doException("IllegalAddress"), v.ctx)
            ELSE LET w == ctx_setValues(v.ctx, SingleFC, r.address, <<r.value>>)
                     g == ctx_getValues(w, SingleFC, r.address, 1)
                 IN Outcome(WriteSingleRegisterResponse_init(r.address, g.ret[1]),
                            g.ctx)

(***************************************************************************)
(* WriteMultipleRegistersRequest                                           *)
(***************************************************************************)
\* count None is modelled as a count below 1: both leave registers empty
WriteMultipleRegistersRequest_init(address, count) ==
    [NoRequest EXCEPT !.kind = "WriteMultipleRegistersRequest",
                      !.address = address,
                      !.registers = IF count > 0 THEN [i \in 1..count |-> 0]
                                    ELSE <<>>]

\* the register values decode reads: for i in range(5, count*2+5, 2) the
\* two bytes data[i:i+2], up to the first i whose two bytes the data does not
\* hold (struct.error ends the loop there)
DecodeRegisters(data, count) ==
    LET held == IF Len(data) < 5 THEN 0 ELSE (Len(data) - 5) \div 2
    IN [j \in 1..Min(count, held) |->
            UnpackH(Slice(data, 5 + 2 * (j - 1), 5 + 2 * j))]

\* whether decode runs to its end on data (no struct.error)
WellFramed(data) ==
    /\ Len(data) >= 5
    /\ Len(data) >= 5 + 2 * UnpackH(Slice(data, 2, 4))

\* data of at least 5 bytes
WriteMultipleRegistersRequest_decode(r, data) ==
    LET count == UnpackH(Slice(data, 2, 4))
    IN [r EXCEPT !.address = UnpackH(Slice(data, 0, 2)),
                 !.has_byte_count = TRUE,
                 !.byte_count = data[5],
                 !.registers = @ \o DecodeRegisters(data, count),
                 !.decodes = @ + 1]

\* ret += struct.pack('>H', reg) for reg in registers
PackRegisters(regs) ==
    [i \in 1..(2 * Len(regs)) |->
        IF i % 2 = 1 THEN PackH(regs[(i + 1) \div 2])[1]
        ELSE PackH(regs[i \div 2])[2]]

\* struct.pack('>HHB', address, count, count*2) + the packed registers
WriteMultipleRegistersRequest_encode(r) ==
    LET count == Len(r.registers)
    IN PackHH(r.address, count) \o <<count * 2>> \o PackRegisters(r.registers)

\* mutant: the registers are written before the address range is validated
WriteMultipleRegistersRequest_execute_writeFirst(r, ctx) ==
    LET count == Len(r.registers)
    IN IF ~(1 <= count /\ count <= RegMax)
       THEN Outcome(doException("IllegalValue"), ctx)
       ELSE IF ~r.has_byte_count
       THEN Outcome(Raise("AttributeError"), ctx)
       ELSE IF r.byte_count # count * 2
       THEN Outcome(doException("IllegalValue"), ctx)
       ELSE LET w == ctx_setValues(ctx, MultiFC, r.address, r.registers)
                v == ctx_validate(w, MultiFC, r.address, count)
            IN IF ~v.ret
               THEN Outcome(doException("IllegalAddress"), v.ctx)
               ELSE Outcome(WriteMultipleRegistersResponse_init(r.address, count),
                            v.ctx)

\* mutant: the upper bound of the register count is exclusive
WriteMultipleRegistersRequest_execute_offByOne(r, ctx) ==
    LET count == Len(r.registers)
    IN IF ~(1 <= count /\ count < RegMax)
       THEN Outcome(doException("IllegalValue"), ctx)
       ELSE IF ~r.has_byte_count
       THEN Outcome(Raise("AttributeError"), ctx)
       ELSE IF r.byte_count # count * 2
       THEN Outcome(doException("IllegalValue"), ctx)
       ELSE LET v == ctx_validate(ctx, MultiFC, r.address, count)
            IN IF ~v.ret
               THEN Outcome(doException("IllegalAddress"), v.ctx)
               ELSE Outcome(WriteMultipleRegistersResponse_init(r.address, count),
                            ctx_setValues(v.ctx, MultiFC, r.address, r.registers))

\* mutant: the response reports the byte count, not the register count
WriteMultipleRegistersRequest_execute_byteCount(r, ctx) ==
    LET count == Len(r.registers)
    IN IF ~(1 <= count /\ count <= RegMax)
       THEN Outcome(doException("IllegalValue"), ctx)
       ELSE IF ~r.has_byte_count
       THEN Outcome(Raise("AttributeError"), ctx)
       ELSE IF r.byte_count # count * 2
       THEN Outcome(doException("IllegalValue"), ctx)
       ELSE LET v == ctx_validate(ctx, MultiFC, r.address, count)
            IN IF ~v.ret
               THEN Outcome(doException("IllegalAddress"), v.ctx)
               ELSE Outcome(WriteMultipleRegistersResponse_init(r.address,
                                                                r.byte_count),
                            ctx_setValues(v.ctx, MultiFC, r.address, r.registers))

\* self.byte_count exists only once decode has run: reading it before
\* raises AttributeError
WriteMultipleRegistersRequest_execute(r, ctx) ==
    LET count == Len(r.registers)
    IN IF ~(1 <= count /\ count <= RegMax)
       THEN Outcome(doException("IllegalValue"), ctx)
       ELSE IF ~r.has_byte_count
       THEN Outcome(Raise("AttributeError"), ctx)
       ELSE IF r.byte_count # count * 2
       THEN Outcome(doException("IllegalValue"), ctx)
       ELSE LET v == ctx_validate(ctx, MultiFC, r.address, count)
            IN IF ~v.ret
               THEN Outcome(doException("IllegalAddress"), v.ctx)
               ELSE Outcome(WriteMultipleRegistersResponse_init(r.address, count),
                            ctx_setValues(v.ctx, MultiFC, r.address, r.registers))

(***************************************************************************)
(* ModbusCountersHandler                                                   *)
(***************************************************************************)
\* the argument of a call: a string, an integer, a mapping or list of
\* integers, or a mapping or list of strings, with the name of its type
Arg(type, str, int, ints, strs) ==
    [type |-> type, str |-> str, int |-> int, ints |-> ints, strs |-> strs]

NoArg == Arg("none", "", 0, <<>>, <<>>)

\* what a call returned: None, a boolean, a string, or the exception raised
NoRet == [type |-> "None", bool |-> FALSE, str |-> ""]
BoolRet(b) == [type |-> "bool", bool |-> b, str |-> ""]
StrRet(str) == [type |-> "str", bool |-> FALSE, str |-> str]
Raised(err) == [type |-> "raise", bool |-> FALSE, str |-> err]

CounterIds == 0..8
DiagnosticBits == 0..(DiagnosticLen - 1)
EventCounter == 8

\* reset: self.__data = dict([(i, 0x0000) for i in range(9)])
ModbusCountersHandler_reset == [i \in CounterIds |-> 0]

\* update(input): for k, v in input.iteritems(): v += getattr(k); setattr(k, v)
\* (input maps counter indexes, standing for the property names, to deltas)
ModbusCountersHandler_update(data, input) ==
    [i \in CounterIds |-> IF i \in DOMAIN input THEN data[i] + input[i] ELSE data[i]]

\* summary: count, result = 0x01, 0x00; for i in self.__data.values():
\* if i != 0x00: result |= count; count <<= 1.  The dict holds the nine keys
\* 0..8, which it yields in that order; 2^k is count after k shifts.
RECURSIVE SummaryFrom(_, _, _)
SummaryFrom(data, k, count) ==
    IF k > 8 THEN 0
    ELSE (IF data[k] # 0 THEN count ELSE 0) + SummaryFrom(data, k + 1, count * 2)

ModbusCountersHandler_summary(data) == SummaryFrom(data, 0, 1)

(***************************************************************************)
(* ModbusControlBlock: operations on the block                             *)
(*   cb = [events, counters, diagnostic, mode, delimiter, listen_only,     *)
(*         identity]                                                       *)
(***************************************************************************)
\* mutant: the event is appended, so that the chomp drops the newest
ModbusControlBlock_addEvent_append(cb, event) ==
    [cb EXCEPT !.events = SubSeq(cb.events \o <<event>>, 1,
                                 Min(EventLogMax, Len(cb.events) + 1)),
               !.counters = [cb.counters EXCEPT ![EventCounter] = @ + 1]]

\* mutant: the Event counter is left alone when an old event is dropped
ModbusControlBlock_addEvent_countStored(cb, event) ==
    [cb EXCEPT !.events = SubSeq(<<event>> \o cb.events, 1,
                                 Min(EventLogMax, Len(cb.events) + 1)),
               !.counters = IF Len(cb.events) < EventLogMax
                            THEN [cb.counters EXCEPT ![EventCounter] = @ + 1]
                            ELSE cb.counters]

\* self.__events.insert(0, event); self.__events = self.__events[0:64];
\* self.Counter.Event += 1
ModbusControlBlock_addEvent(cb, event) ==
    [cb EXCEPT !.events = SubSeq(<<event>> \o cb.events, 1,
                                 Min(EventLogMax, Len(cb.events) + 1)),
               !.counters = [cb.counters EXCEPT ![EventCounter] = @ + 1]]

\* mutant: reset also puts the mode back to its default
ModbusControlBlock_reset_mode(cb) ==
    [cb EXCEPT !.events = <<>>,
               !.counters = ModbusCountersHandler_reset,
               !.diagnostic = [i \in DiagnosticBits |-> FALSE],
               !.mode = "ASCII"]

\* reset: self.__events = []; self.__counters.reset();
\* self.__diagnostic = [False] * 16
ModbusControlBlock_reset(cb) ==
    [cb EXCEPT !.events = <<>>,
               !.counters = ModbusCountersHandler_reset,
               !.diagnostic = [i \in DiagnosticBits |-> FALSE]]

\* _setMode(mode): if mode in ['ASCII', 'RTU']: self.__mode = mode
\* _setListenOnly(value): self.__listen_only = value is not None
\* (value = Arg(...): None has the type "None", a bool the type "bool")
ModbusControlBlock_setListenOnly(cb, value) ==
    [cb EXCEPT !.listen_only = (value.type # "None")]

\* mutant: any value is stored as the mode
ModbusControlBlock_setMode_any(cb, m) == [cb EXCEPT !.mode = m]

ModbusControlBlock_setMode(cb, m) ==
    IF m \in {"ASCII", "RTU"} THEN [cb EXCEPT !.mode = m] ELSE cb

\* chr(i) raises ValueError outside range(256)
chr_raises(i) == ~(0 <= i /\ i < 256)

\* _setDelimiter(char): a str is stored as it is, whatever its length, an
\* int as chr(char); when chr raises, nothing is stored
\* (char = [type, str, int], a string being the sequence of its codes)
ModbusControlBlock_setDelimiter(cb, char) ==
    IF char.type = "str" THEN [cb EXCEPT !.delimiter = char.str]
    ELSE IF char.type = "int" /\ ~chr_raises(char.int)
         THEN [cb EXCEPT !.delimiter = <<char.int>>]
    ELSE cb

\* what _setDelimiter(char) returns or raises
ModbusControlBlock_setDelimiter_ret(char) ==
    IF char.type = "int" /\ chr_raises(char.int) THEN Raised("ValueError")
    ELSE NoRet

\* mutant: no lower limit on the index, so that a negative index counts
\* from the end of the list
ModbusControlBlock_setDiagnostic_negative(cb, mapping) ==
    [cb EXCEPT !.diagnostic = [i \in DiagnosticBits |->
        IF i \in DOMAIN mapping THEN mapping[i] # 0
        ELSE IF i - DiagnosticLen \in DOMAIN mapping
             THEN mapping[i - DiagnosticLen] # 0
        ELSE cb.diagnostic[i]]]

\* setDiagnostic(mapping): for entry in mapping.iteritems():
\* if entry[0] >= 0 and entry[0] < len(self.__diagnostic): bit = (entry[1] != 0)
ModbusControlBlock_setDiagnostic(cb, mapping) ==
    [cb EXCEPT !.diagnostic = [i \in DiagnosticBits |->
        IF i \in DOMAIN mapping /\ i >= 0 /\ i < DiagnosticLen THEN mapping[i] # 0
        ELSE cb.diagnostic[i]]]

\* getDiagnostic(bit)
ModbusControlBlock_getDiagnostic(cb, bit) ==
    IF bit >= 0 /\ bit < DiagnosticLen THEN BoolRet(cb.diagnostic[bit])
    ELSE NoRet

\* the key test of ModbusDeviceIdentification.__init__
AcceptedByInit(key) == (6 >= key /\ key >= 0) \/ (128 > key /\ key > 8)

\* dict.update(input) on data
dict_update(data, input) ==
    [k \in DOMAIN data \cup DOMAIN input |->
        IF k \in DOMAIN input THEN input[k] ELSE data[k]]

\* ModbusDeviceIdentification(info): the entries of a dict info whose key
\* passes the test are written to __data, the dict of the class
ModbusDeviceIdentification_init(data, info) ==
    IF info.type = "dict"
    THEN dict_update(data, [k \in {key \in DOMAIN info.strs :
                                       AcceptedByInit(key)} |-> info.strs[k]])
    ELSE data

\* ModbusDeviceIdentification.__iter__(): the (key, value) items
ModbusDeviceIdentification_iter(data) == {<<k, data[k]>> : k \in DOMAIN data}

\* ModbusDeviceIdentification.update(input)
ModbusDeviceIdentification_update(data, input) == dict_update(data, input)

\* mutant: a get of a key without entry stores nothing (dict.get)
ModbusDeviceIdentification_getitem_get(data, key) ==
    [data |-> data, ret |-> IF key \in DOMAIN data THEN data[key] ELSE ""]

\* ModbusDeviceIdentification.__getitem__(key): __data.setdefault(key, '')
ModbusDeviceIdentification_getitem(data, key) ==
    IF key \in DOMAIN data
    THEN [data |-> data, ret |-> data[key]]
    ELSE [data |-> dict_update(data, (key :> "")), ret |-> ""]

\* mutant: the set of one key stores at keys 7 and 8 too
ModbusDeviceIdentification_setitem_unguarded(data, key, value) ==
    [k \in DOMAIN data \cup {key} |-> IF k = key THEN value ELSE data[k]]

\* ModbusDeviceIdentification.__setitem__(key, value)
ModbusDeviceIdentification_setitem(data, key, value) ==
    IF key \notin {7, 8}
    THEN [k \in DOMAIN data \cup {key} |-> IF k = key THEN value ELSE data[k]]
    ELSE data

(***************************************************************************)
(* The control block after construction (class attributes of               *)
(* ModbusControlBlock, ModbusCountersHandler, ModbusDeviceIdentification)  *)
(***************************************************************************)
CBInit ==
    /\ events = <<>>
    /\ counters = [i \in CounterIds |-> 0]
    /\ diagnostic = [i \in DiagnosticBits |-> FALSE]
    /\ mode = "ASCII"
    /\ delimiter = <<13>>
    /\ listen_only = FALSE
    /\ identity = [k \in 0..8 |-> ""]
    /\ nadded = 0
    /\ nsince = 0
    /\ updated = FALSE

PDUInit ==
    /\ req = NoRequest
    /\ wire = <<>>
    /\ ctxIn = NoContext
    /\ ctxOut = NoContext
    /\ result = NoResult

NoMessage == [kind |-> "none", address |-> 0, value |-> 0, count |-> 0]

CodecInit ==
    /\ msg = NoMessage
    /\ decoded = NoMessage

Handlers == {1, 2}


\* the access table after construction, no handler running, no call made
OtherInit ==
    /\ nmstable = <<"127.0.0.1">>
    /\ pc = [h \in Handlers |-> "idle"]
    /\ tmpEvents = [h \in Handlers |-> <<>>]
    /\ tmpCount = [h \in Handlers |-> 0]
    /\ lastArg = NoArg
    /\ lastRet = NoRet

(***************************************************************************)
(* Spec: a request object is constructed, decoded and executed             *)
(***************************************************************************)
Addresses == {0, 1, 16, MaxU16}
SingleValues == {-1, 0, 999, 4660, MaxU16, MaxU16 + 1}
PresizeCounts == {-1, 0, 1, 2, RegMax}
BufferAddresses == {1, 16}
BufferCounts == {0, 1, 2, RegMax - 1, RegMax, RegMax + 1}

\* the i-th register value of an input buffer
RegValue(i) == 400 * i + 300

\* a request buffer: the 5-byte header and m register values
MultiBuffer(a, n, bc, m) ==
    PackHH(a, n) \o <<bc>> \o PackRegisters([i \in 1..m |-> RegValue(i)])

\* well-framed buffers with a consistent or an inconsistent byte count, and
\* buffers that end one register early
MultiBuffers ==
    {MultiBuffer(a, n, bc, n) :
        a \in BufferAddresses, n \in BufferCounts, bc \in {0, 2, 4}} \cup
    {MultiBuffer(a, n, 2 * n, n) : a \in BufferAddresses, n \in BufferCounts} \cup
    {MultiBuffer(a, 2, bc, 1) : a \in BufferAddresses, bc \in {2, 4}}

SingleBuffers ==
    {PackHH(a, v) : a \in {1, 16, MaxU16}, v \in {0, 4660, MaxU16}} \cup {<<0, 1, 2>>}

\* the contexts a caller hands to execute
Contexts ==
    {[size |-> StoreSize, ceiling |-> c,
      regs |-> [a \in 0..(StoreSize - 1) |-> r], log |-> <<>>] :
        c \in {1000, MaxU16}, r \in {0, 7}}

NewSingle ==
    \E a \in Addresses, v \in SingleValues :
        /\ req' = WriteSingleRegisterRequest_init(a, v)
        /\ wire' = <<>>
        /\ ctxIn' = NoContext /\ ctxOut' = NoContext
        /\ result' = NoResult
        /\ lastOp' = "init"
        /\ UNCHANGED <<codecVars, cbVars, acVars, concVars, callVars>>

NewMulti ==
    \E a \in Addresses, c \in PresizeCounts :
        /\ req' = WriteMultipleRegistersRequest_init(a, c)
        /\ wire' = <<>>
        /\ ctxIn' = NoContext /\ ctxOut' = NoContext
        /\ result' = NoResult
        /\ lastOp' = "init"
        /\ UNCHANGED <<codecVars, cbVars, acVars, concVars, callVars>>

\* struct.unpack('>HH', data) raises struct.error unless data has 4 bytes
DecodeSingle ==
    \E data \in SingleBuffers :
        /\ req.kind = "WriteSingleRegisterRequest"
        /\ req.decodes < MaxDecodes
        /\ wire' = data
        /\ IF Len(data) = 4
           THEN /\ req' = WriteSingleRegisterRequest_decode(req, data)
                /\ result' = NoResult
           ELSE /\ req' = req
                /\ result' = Raise("struct.error")
        /\ ctxIn' = NoContext /\ ctxOut' = NoContext
        /\ lastOp' = "decode"
        /\ UNCHANGED <<codecVars, cbVars, acVars, concVars, callVars>>

DecodeMulti ==
    \E data \in MultiBuffers :
        /\ req.kind = "WriteMultipleRegistersRequest"
        /\ req.decodes < MaxDecodes
        /\ Len(req.registers) + UnpackH(Slice(data, 2, 4)) <= MaxRegs
        /\ wire' = data
        /\ req' = WriteMultipleRegistersRequest_decode(req, data)
        /\ result' = IF WellFramed(data) THEN NoResult ELSE Raise("struct.error")
        /\ ctxIn' = NoContext /\ ctxOut' = NoContext
        /\ lastOp' = "decode"
        /\ UNCHANGED <<codecVars, cbVars, acVars, concVars, callVars>>

execute(r, ctx) ==
    IF r.kind = "WriteSingleRegisterRequest"
    THEN WriteSingleRegisterRequest_execute(r, ctx)
    ELSE WriteMultipleRegistersRequest_execute(r, ctx)

Execute ==
    \E ctx \in Contexts :
        /\ req.kind # "none"
        /\ LET o == execute(req, ctx)
           IN /\ result' = o.result
              /\ ctxIn' = ctx
              /\ ctxOut' = o.ctx
        /\ lastOp' = "execute"
        /\ UNCHANGED <<req, wire, codecVars, cbVars, acVars, concVars, callVars>>

\* the response of an execute call is encoded for the wire
EncodeResponse ==
    /\ lastOp = "execute"
    /\ result.type \in {"WriteSingleRegisterResponse",
                        "WriteMultipleRegistersResponse"}
    /\ wire' = IF result.type = "WriteSingleRegisterResponse"
               THEN WriteSingleRegisterResponse_encode(result)
               ELSE WriteMultipleRegistersResponse_encode(result)
    /\ lastOp' = "encode"
    /\ UNCHANGED <<req, ctxIn, ctxOut, result, codecVars, cbVars, acVars, concVars, callVars>>

Init == PDUInit /\ CodecInit /\ CBInit /\ OtherInit /\ lastOp = "start"

Next ==
    \/ NewSingle
    \/ NewMulti
    \/ DecodeSingle
    \/ DecodeMulti
    \/ Execute
    \/ EncodeResponse

Spec == Init /\ [][Next]_vars

(***************************************************************************)
(* SpecCodec: a 4-byte message is encoded, and the bytes are decoded into  *)
(* a fresh object of its class                                             *)
(***************************************************************************)
FieldValues == {0, 1, 16, 255, 256, 4660, MaxU16 - 1, MaxU16}

Messages ==
    {WriteSingleRegisterRequest_init(a, v) : a \in FieldValues, v \in FieldValues}
    \cup
    {WriteSingleRegisterResponse_init(a, v) : a \in FieldValues, v \in FieldValues}
    \cup
    {WriteMultipleRegistersResponse_init(a, c) : a \in FieldValues, c \in FieldValues}

\* the class of a message object
ClassOf(m) == IF "kind" \in DOMAIN m THEN m.kind ELSE m.type

\* the second field of a message: value, or count
SecondField(m) ==
    IF ClassOf(m) = "WriteMultipleRegistersResponse" THEN m.count ELSE m.value

encode(m) ==
    IF ClassOf(m) = "WriteSingleRegisterRequest"
    THEN WriteSingleRegisterRequest_encode(m)
    ELSE IF ClassOf(m) = "WriteSingleRegisterResponse"
    THEN WriteSingleRegisterResponse_encode(m)
    ELSE WriteMultipleRegistersResponse_encode(m)

\* decode into an object constructed without arguments (its fields None,
\* written -1 here)
decode(class, data) ==
    IF class = "WriteSingleRegisterRequest"
    THEN WriteSingleRegisterRequest_decode(
             WriteSingleRegisterRequest_init(-1, -1), data)
    ELSE IF class = "WriteSingleRegisterResponse"
    THEN WriteSingleRegisterResponse_decode(
             WriteSingleRegisterResponse_init(-1, -1), data)
    ELSE WriteMultipleRegistersResponse_decode(
             WriteMultipleRegistersResponse_init(-1, -1), data)

CodecStart ==
    /\ PDUInit /\ CBInit /\ OtherInit
    /\ msg \in Messages
    /\ decoded = NoMessage
    /\ lastOp = "start"

EncodeMessage ==
    /\ lastOp = "start"
    /\ wire' = encode(msg)
    /\ lastOp' = "encodeMessage"
    /\ UNCHANGED <<req, ctxIn, ctxOut, result, codecVars, cbVars, acVars, concVars, callVars>>

DecodeMessage ==
    /\ lastOp = "encodeMessage"
    /\ Len(wire) = 4
    /\ decoded' = decode(ClassOf(msg), wire)
    /\ lastOp' = "decodeMessage"
    /\ UNCHANGED <<pduVars, msg, cbVars, acVars, concVars, callVars>>

CodecNext ==
    \/ EncodeMessage
    \/ DecodeMessage

SpecCodec == CodecStart /\ [][CodecNext]_vars

(***************************************************************************)
(* The control block: its operations as actions                            *)
(***************************************************************************)
CB ==
    [events |-> events, counters |-> counters, diagnostic |-> diagnostic,
     mode |-> mode, delimiter |-> delimiter, listen_only |-> listen_only,
     identity |-> identity]

SetCB(cb) ==
    /\ events' = cb.events
    /\ counters' = cb.counters
    /\ diagnostic' = cb.diagnostic
    /\ mode' = cb.mode
    /\ delimiter' = cb.delimiter
    /\ listen_only' = cb.listen_only
    /\ identity' = cb.identity

\* the inputs of CountersHandler.update: BusMessage += 1, and
\* BusCharacterOverrun += 2 with Event += 3
CounterUpdates == {(0 :> 1), (7 :> 2) @@ (8 :> 3)}

\* the inputs of setDiagnostic, with indexes inside and outside 0..15
DiagnosticMappings ==
    {(0 :> 1), (15 :> 2) @@ (16 :> 1), (0 :> 0) @@ (-1 :> 1)}

ModeInputs == {"ASCII", "RTU", "TCP"}

\* "\n", "\r\n", 58, 256 and None
DelimiterInputs ==
    {[type |-> "str", str |-> <<10>>, int |-> 0],
     [type |-> "str", str |-> <<13, 10>>, int |-> 0],
     [type |-> "int", str |-> <<>>, int |-> 58],
     [type |-> "int", str |-> <<>>, int |-> 256],
     [type |-> "other", str |-> <<>>, int |-> 0]}

\* the bit argument of getDiagnostic, inside and outside 0..15
DiagnosticIndexes == {-1, 0, 15, 16}

\* addEvent(event): the event of the n-th call is n; at most cap calls
AddEvent(cap) ==
    /\ nadded < cap
    /\ SetCB(ModbusControlBlock_addEvent(CB, nadded + 1))
    /\ nadded' = nadded + 1
    /\ nsince' = nsince + 1
    /\ lastOp' = "addEvent"
    /\ lastArg' = NoArg
    /\ lastRet' = NoRet
    /\ UNCHANGED <<pduVars, codecVars, updated, acVars, concVars>>

Reset ==
    /\ SetCB(ModbusControlBlock_reset(CB))
    /\ nsince' = 0
    /\ updated' = FALSE
    /\ lastOp' = "reset"
    /\ lastArg' = NoArg
    /\ lastRet' = NoRet
    /\ UNCHANGED <<pduVars, codecVars, nadded, acVars, concVars>>

UpdateCounters ==
    \E input \in CounterUpdates :
        /\ \A k \in DOMAIN input : counters[k] + input[k] <= MaxCount
        /\ SetCB([CB EXCEPT !.counters = ModbusCountersHandler_update(@, input)])
        /\ updated' = TRUE
        /\ lastOp' = "update"
        /\ lastArg' = Arg("dict", "", 0, input, <<>>)
        /\ lastRet' = NoRet
        /\ UNCHANGED <<pduVars, codecVars, nadded, nsince, acVars, concVars>>

SetDiagnostic ==
    \E mapping \in DiagnosticMappings :
        /\ SetCB(ModbusControlBlock_setDiagnostic(CB, mapping))
        /\ lastOp' = "setDiagnostic"
        /\ lastArg' = Arg("dict", "", 0, mapping, <<>>)
        /\ lastRet' = NoRet
        /\ UNCHANGED <<pduVars, codecVars, nadded, nsince, updated, acVars, concVars>>

SetMode ==
    \E m \in ModeInputs :
        /\ SetCB(ModbusControlBlock_setMode(CB, m))
        /\ lastOp' = "setMode"
        /\ lastArg' = Arg("str", m, 0, <<>>, <<>>)
        /\ lastRet' = NoRet
        /\ UNCHANGED <<pduVars, codecVars, nadded, nsince, updated, acVars, concVars>>

SetDelimiter ==
    \E char \in DelimiterInputs :
        /\ SetCB(ModbusControlBlock_setDelimiter(CB, char))
        /\ lastOp' = "setDelimiter"
        /\ lastArg' = Arg(char.type, "", char.int, char.str, <<>>)
        /\ lastRet' = ModbusControlBlock_setDelimiter_ret(char)
        /\ UNCHANGED <<pduVars, codecVars, nadded, nsince, updated, acVars, concVars>>

GetDiagnostic ==
    \E bit \in DiagnosticIndexes :
        /\ lastRet' = ModbusControlBlock_getDiagnostic(CB, bit)
        /\ lastArg' = Arg("int", "", bit, <<>>, <<>>)
        /\ lastOp' = "getDiagnostic"
        /\ UNCHANGED <<pduVars, codecVars, cbVars, acVars, concVars>>

\* ControlBlock.Identity[key] = value
SetIdentity ==
    \E key \in {0, 7}, value \in {"x"} :
        /\ SetCB([CB EXCEPT !.identity =
                     ModbusDeviceIdentification_setitem(@, key, value)])
        /\ lastOp' = "setIdentity"
        /\ lastArg' = Arg("item", value, key, <<>>, <<>>)
        /\ lastRet' = NoRet
        /\ UNCHANGED <<pduVars, codecVars, nadded, nsince, updated, acVars, concVars>>

(***************************************************************************)
(* SpecLog: a long run of addEvent calls, with resets and counter updates  *)
(***************************************************************************)
LogAddEvent == AddEvent(MaxEvents)

LogNext ==
    \/ LogAddEvent
    \/ Reset
    \/ UpdateCounters

SpecLog == Init /\ [][LogNext]_vars

(***************************************************************************)
(* SpecCB: every operation of the control block, in short runs             *)
(***************************************************************************)
CBAddEvent == AddEvent(MaxBurst)

CBNext ==
    \/ CBAddEvent
    \/ Reset
    \/ UpdateCounters
    \/ SetDiagnostic
    \/ GetDiagnostic
    \/ SetMode
    \/ SetDelimiter
    \/ SetIdentity

SpecCB == Init /\ [][CBNext]_vars

(***************************************************************************)
(* Properties of execute (checked under Spec)                              *)
(***************************************************************************)
IsSingle == req.kind = "WriteSingleRegisterRequest"
IsMulti == req.kind = "WriteMultipleRegistersRequest"

\* the state right after execute(ctxIn) on req: result and ctxOut are its
Executed == lastOp = "execute"

RegisterCount == Len(req.registers)

CountInRange == 1 <= RegisterCount /\ RegisterCount <= RegMax

\* the request passes the value / count / byte-count checks
PassesChecks ==
    IF IsSingle THEN InU16(req.value)
    ELSE CountInRange /\ req.has_byte_count /\ req.byte_count = 2 * RegisterCount

\* what context.validate answers for the request's address range
ContextValidates ==
    IF IsSingle THEN ctx_validate(ctxIn, SingleFC, req.address, 1).ret
    ELSE ctx_validate(ctxIn, MultiFC, req.address, RegisterCount).ret

CallsOf(op) == {i \in 1..Len(ctxOut.log) : ctxOut.log[i].op = op}

\* C1: a request that passes the value/count/byte-count checks and whose
\* address the context does not validate yields an IllegalAddress exception
\* response; setValues is not called and the datastore keeps its contents.
C1_AddressRejection ==
    (Executed /\ PassesChecks /\ ~ContextValidates) =>
        /\ result = doException("IllegalAddress")
        /\ CallsOf("setValues") = {}
        /\ ctxOut.regs = ctxIn.regs

C1_Witness ==
    /\ Executed /\ IsMulti /\ PassesChecks /\ ~ContextValidates
    /\ RegisterCount = RegMax
    /\ result.code = "IllegalAddress"

\* C2: a single-register request whose value is outside 0..65535, and a
\* multiple-register request whose register count is outside 1..123 or whose
\* byte count differs from twice the count, yields IllegalValue and no call
\* at all is made on the context, whether or not the address is valid.
C2_ValueChecksFirst ==
    (/\ Executed
     /\ \/ IsSingle /\ ~InU16(req.value)
        \/ IsMulti /\ ~CountInRange
        \/ IsMulti /\ req.has_byte_count /\ req.byte_count # 2 * RegisterCount) =>
        /\ result = doException("IllegalValue")
        /\ ctxOut.log = <<>>
        /\ ctxOut = ctxIn

C2_Witness ==
    /\ Executed /\ IsSingle /\ ~InU16(req.value) /\ ~ContextValidates
    /\ result.code = "IllegalValue"

\* C3: execute on a decoded multiple-register request yields IllegalValue
\* exactly when the number of registers is outside 1..123 or the byte count of
\* the header is not twice the number of registers; otherwise the first thing
\* it does is context.validate(16, address, count).
C3_IllegalValueExactly ==
    (Executed /\ IsMulti /\ req.has_byte_count) =>
        /\ (result = doException("IllegalValue")) <=>
               (~CountInRange \/ req.byte_count # 2 * RegisterCount)
        /\ (RegisterCount \in {0, RegMax + 1}) => result.code = "IllegalValue"
        /\ (CountInRange /\ req.byte_count = 2 * RegisterCount) =>
               /\ Len(ctxOut.log) >= 1
               /\ ctxOut.log[1] =
                      Call("validate", MultiFC, req.address, RegisterCount, <<>>)

C3_Witness ==
    /\ Executed /\ IsMulti /\ req.has_byte_count
    /\ RegisterCount = RegMax /\ req.byte_count = 2 * RegMax
    /\ Len(ctxOut.log) >= 1 /\ ctxOut.log[1].op = "validate"

\* C4: a single-register request with a value in 0..65535 and a validated
\* address makes the calls validate, setValues(6, address, [value]),
\* getValues(6, address) in that order, each once; the response carries the
\* request's address and the value read back from the datastore; when the
\* datastore stored the value unchanged the response encodes to the bytes of
\* the request.
C4_WriteThenReadBack ==
    (Executed /\ IsSingle /\ PassesChecks /\ ContextValidates) =>
        /\ ctxOut.log =
              <<Call("validate", SingleFC, req.address, 1, <<>>),
                Call("setValues", SingleFC, req.address, 1, <<req.value>>),
                Call("getValues", SingleFC, req.address, 1, <<>>)>>
        /\ result = WriteSingleRegisterResponse_init(req.address,
                                                     ctxOut.regs[req.address])
        /\ (req.value <= ctxIn.ceiling) =>
               WriteSingleRegisterResponse_encode(result) =
                   WriteSingleRegisterRequest_encode(req)

\* the datastore clamped the value: the response differs from the request
C4_Witness ==
    /\ Executed /\ IsSingle /\ PassesChecks /\ ContextValidates
    /\ result.type = "WriteSingleRegisterResponse"
    /\ result.value # req.value
    /\ result.value = ctxOut.regs[req.address]

\* C5: a multiple-register request with 1..123 registers, a byte count of
\* twice that and a validated address range calls setValues once, with
\* (16, address, registers), and returns a response of exactly address and
\* the number of registers written, which encodes to those four bytes.
C5_WriteMultiple ==
    (Executed /\ IsMulti /\ PassesChecks /\ ContextValidates) =>
        /\ Cardinality(CallsOf("setValues")) = 1
        /\ \A i \in CallsOf("setValues") :
               ctxOut.log[i] = Call("setValues", MultiFC, req.address,
                                    RegisterCount, req.registers)
        /\ result = WriteMultipleRegistersResponse_init(req.address, RegisterCount)
        /\ WriteMultipleRegistersResponse_encode(result) =
               PackHH(req.address, RegisterCount)
        /\ Len(WriteMultipleRegistersResponse_encode(result)) = 4

C5_Witness ==
    /\ Executed /\ IsMulti /\ PassesChecks /\ ContextValidates
    /\ RegisterCount = RegMax
    /\ result.type = "WriteMultipleRegistersResponse"
    /\ result.count = RegMax
    /\ \E i \in CallsOf("setValues") : ctxOut.log[i].values = req.registers

(***************************************************************************)
(* Properties of the 4-byte codec (checked under SpecCodec)                *)
(***************************************************************************)
IsByte(b) == b \in 0..255

\* C6: encode of a single-register request or response and of a
\* multiple-register response with both fields in 0..65535 yields exactly
\* four bytes, the first field big-endian then the second field big-endian,
\* and decode of those bytes reproduces both fields.
C6_RoundTrip ==
    /\ (lastOp \in {"encodeMessage", "decodeMessage"}) =>
           /\ Len(wire) = 4
           /\ \A i \in 1..4 : IsByte(wire[i])
           /\ 256 * wire[1] + wire[2] = msg.address
           /\ 256 * wire[3] + wire[4] = SecondField(msg)
    /\ (lastOp = "decodeMessage") =>
           /\ ClassOf(decoded) = ClassOf(msg)
           /\ decoded.address = msg.address
           /\ SecondField(decoded) = SecondField(msg)

C6_Witness ==
    /\ lastOp = "decodeMessage"
    /\ ClassOf(msg) = "WriteSingleRegisterRequest"
    /\ msg.address = 16 /\ msg.value = 4660
    /\ wire = <<0, 16, 18, 52>>
    /\ decoded.address = 16 /\ decoded.value = 4660

(***************************************************************************)
(* Properties of the event log and the counters (checked under SpecLog)    *)
(***************************************************************************)
\* the events added since the last reset: the calls nadded-nsince+1 .. nadded
AddedSinceReset == (nadded - nsince + 1)..nadded

InLog(e) == \E i \in 1..Len(events) : events[i] = e

\* C7: after n addEvent calls since the last reset the log holds the
\* min(n, 64) events added last, the newest first; it never holds more than
\* 64; an event added since the reset is missing only if 64 newer ones exist.
C7_EventLog ==
    /\ Len(events) = Min(nsince, EventLogMax)
    /\ Len(events) <= EventLogMax
    /\ \A i \in 1..Len(events) : events[i] = nadded - i + 1
    /\ \A e \in AddedSinceReset : ~InLog(e) => nadded - e >= EventLogMax

C7_Witness ==
    /\ lastOp = "addEvent"
    /\ nsince = MaxEvents
    /\ Len(events) = EventLogMax
    /\ events[1] = nadded
    /\ events[EventLogMax] = nadded - EventLogMax + 1
    /\ ~InLog(nadded - EventLogMax)

\* C8: an addEvent call adds one to the Event counter and leaves the other
\* eight counters as they were, also when the log is full; so after n
\* addEvent calls since the last reset, with no counter update in between,
\* the Event counter is n and the log holds min(n, 64) events.
C8_EventCounter ==
    /\ [][lastOp' = "addEvent" =>
            counters' = [counters EXCEPT ![EventCounter] = @ + 1]]_vars
    /\ [](~updated =>
            /\ counters[EventCounter] = nsince
            /\ Len(events) = Min(nsince, EventLogMax))

C8_Witness ==
    /\ lastOp = "addEvent"
    /\ nsince > EventLogMax + 1
    /\ Len(events) = EventLogMax
    /\ counters[EventCounter] = nsince
    /\ counters[0] # 0

(***************************************************************************)
(* Properties of reset and summary (checked under SpecCB)                  *)
(***************************************************************************)
\* C9: reset leaves the event log empty, the nine counters at zero and the
\* 16 diagnostic bits false, and leaves the identification entries, the mode
\* and the delimiter as they were.
C9_Reset ==
    [][lastOp' = "reset" =>
        /\ events' = <<>>
        /\ counters' = [i \in CounterIds |-> 0]
        /\ diagnostic' = [i \in DiagnosticBits |-> FALSE]
        /\ identity' = identity
        /\ mode' = mode
        /\ delimiter' = delimiter]_vars

C9_Witness ==
    /\ lastOp = "reset"
    /\ nadded > 0 /\ events = <<>>
    /\ counters = [i \in CounterIds |-> 0]
    /\ mode = "RTU"
    /\ delimiter = <<58>>
    /\ identity[0] = "x"

\* bit i of the number s
Bit(s, i) == (s \div (2 ^ i)) % 2 = 1

\* C10: summary() is a value in 0..255 whose bit i, i = 0..7, is set exactly
\* when counter i is nonzero; the Event counter does not affect it.
C10_SummaryIsByteMask ==
    LET s == ModbusCountersHandler_summary(counters)
    IN /\ s \in 0..255
       /\ \A i \in 0..7 : Bit(s, i) <=> counters[i] # 0

(***************************************************************************)
(* SpecCounters: counter updates that carry a counter up to and past the   *)
(* largest 16-bit value                                                    *)
(***************************************************************************)
\* the runs of SpecCounters keep a counter within MaxOver of zero or of
\* MaxU16
MaxOver == 3

\* the inputs of CountersHandler.update: BusMessage += 65535, Event += 65535
\* and BusMessage += 1
LargeUpdates == {(0 :> MaxU16), (EventCounter :> MaxU16), (0 :> 1)}

UpdateLarge ==
    \E input \in LargeUpdates :
        /\ \A k \in DOMAIN input :
               LET v == counters[k] + input[k]
               IN v <= MaxOver \/ (MaxU16 <= v /\ v <= MaxU16 + MaxOver)
        /\ SetCB([CB EXCEPT !.counters = ModbusCountersHandler_update(@, input)])
        /\ updated' = TRUE
        /\ lastArg' = Arg("dict", "", 0, input, <<>>)
        /\ lastRet' = NoRet
        /\ lastOp' = "update"
        /\ UNCHANGED <<pduVars, codecVars, nadded, nsince, acVars, concVars>>

CountersNext ==
    \/ CBAddEvent
    \/ Reset
    \/ UpdateLarge

SpecCounters == Init /\ [][CountersNext]_vars

\* C11: every one of the nine counters is a 16-bit value, in 0..65535, in
\* every state reached by update, addEvent and reset.
C11_CountersAre16Bit == \A i \in CounterIds : counters[i] \in 0..MaxU16

(***************************************************************************)
(* ModbusAccessControl: the table of allowed hosts                         *)
(***************************************************************************)
\* host in table
InTable(table, host) == \E i \in 1..Len(table) : table[i] = host

\* add/remove take one host or a list of hosts: a single host is wrapped
AsList(host) == IF host.type = "list" THEN host.strs ELSE <<host.str>>

\* list.remove(entry): drops the first occurrence, ValueError when absent
list_remove(table, entry) ==
    IF InTable(table, entry)
    THEN LET i == CHOOSE i \in 1..Len(table) :
                      /\ table[i] = entry
                      /\ \A j \in 1..(i - 1) : table[j] # entry
         IN [table |-> SubSeq(table, 1, i - 1) \o SubSeq(table, i + 1, Len(table)),
             raised |-> ""]
    ELSE [table |-> table, raised |-> "ValueError"]

\* the loop of add over the entries from the n-th on
RECURSIVE AddEntries(_, _, _)
AddEntries(table, entries, n) ==
    IF n > Len(entries) THEN table
    ELSE AddEntries(table \o <<entries[n]>>, entries, n + 1)

\* mutant: add appends every entry, present or not
ModbusAccessControl_add_always(table, host) ==
    [table |-> AddEntries(table, AsList(host), 1), raised |-> ""]

\* the loop of add, with its membership test, over the entries from the n-th on
RECURSIVE AddNewEntries(_, _, _)
AddNewEntries(table, entries, n) ==
    IF n > Len(entries) THEN table
    ELSE AddNewEntries(IF ~InTable(table, entries[n])
                       THEN table \o <<entries[n]>>
                       ELSE table,
                       entries, n + 1)

ModbusAccessControl_add(table, host) ==
    [table |-> AddNewEntries(table, AsList(host), 1), raised |-> ""]

\* the loop of remove over the entries from the n-th on
RECURSIVE RemoveEntries(_, _, _)
RemoveEntries(acc, entries, n) ==
    IF n > Len(entries) \/ acc.raised # "" THEN acc
    ELSE RemoveEntries(IF InTable(acc.table, entries[n])
                       THEN list_remove(acc.table, entries[n])
                       ELSE acc,
                       entries, n + 1)

ModbusAccessControl_remove(table, host) ==
    RemoveEntries([table |-> table, raised |-> ""], AsList(host), 1)

ModbusAccessControl_check(table, host) == InTable(table, host)

(***************************************************************************)
(* SpecAccess: add, remove and check on the access table                   *)
(***************************************************************************)
\* the longest list of hosts passed to add or remove
MaxHostList == 2

Hosts == {"127.0.0.1", "10.0.0.1", "10.0.0.2"}

\* one host, or a list of hosts (possibly empty, possibly with repeats)
HostInputs ==
    {Arg("str", h, 0, <<>>, <<>>) : h \in Hosts}
    \cup {Arg("list", "", 0, <<>>, l) :
              l \in UNION {[1..n -> Hosts] : n \in 0..MaxHostList}}

\* what a call returns: None, or the exception it raised
Returned(out) == IF out.raised # "" THEN Raised(out.raised) ELSE NoRet

AccessAdd ==
    \E host \in HostInputs :
        LET out == ModbusAccessControl_add(nmstable, host)
        IN /\ nmstable' = out.table
           /\ lastRet' = Returned(out)
           /\ lastArg' = host
           /\ lastOp' = "add"
           /\ UNCHANGED <<pduVars, codecVars, cbVars, concVars>>

AccessRemove ==
    \E host \in HostInputs :
        LET out == ModbusAccessControl_remove(nmstable, host)
        IN /\ nmstable' = out.table
           /\ lastRet' = Returned(out)
           /\ lastArg' = host
           /\ lastOp' = "remove"
           /\ UNCHANGED <<pduVars, codecVars, cbVars, concVars>>

AccessCheck ==
    \E h \in Hosts :
        /\ lastRet' = BoolRet(ModbusAccessControl_check(nmstable, h))
        /\ lastArg' = Arg("str", h, 0, <<>>, <<>>)
        /\ lastOp' = "check"
        /\ UNCHANGED <<pduVars, codecVars, cbVars, acVars, concVars>>

AccessNext ==
    \/ AccessAdd
    \/ AccessRemove
    \/ AccessCheck

SpecAccess == Init /\ [][AccessNext]_vars

\* the hosts of a table, and the hosts named by an argument
HostSet(table) == {table[i] : i \in 1..Len(table)}
NamedHosts(host) == HostSet(AsList(host))

\* C12: the access table behaves as a set: it holds 127.0.0.1 after
\* construction and never holds a host twice; after add(h) every host named
\* by h is in the table, after remove(h) none is, and the other hosts are
\* untouched; adding hosts already present or removing absent ones leaves
\* the table as it was; neither raises; check(h) answers whether h is in the
\* table and does not modify it.
C12_TableIsSet ==
    /\ [](lastOp = "start" => InTable(nmstable, "127.0.0.1"))
    /\ [](\A i, j \in 1..Len(nmstable) : nmstable[i] = nmstable[j] => i = j)
    /\ [][lastOp' = "add" =>
            /\ HostSet(nmstable') = HostSet(nmstable) \cup NamedHosts(lastArg')
            /\ \A h \in NamedHosts(lastArg') :
                   ModbusAccessControl_check(nmstable', h)
            /\ NamedHosts(lastArg') \subseteq HostSet(nmstable) =>
                   nmstable' = nmstable
            /\ lastRet' = NoRet]_vars
    /\ [][lastOp' = "remove" =>
            /\ HostSet(nmstable') = HostSet(nmstable) \ NamedHosts(lastArg')
            /\ \A h \in NamedHosts(lastArg') :
                   ~ModbusAccessControl_check(nmstable', h)
            /\ NamedHosts(lastArg') \cap HostSet(nmstable) = {} =>
                   nmstable' = nmstable
            /\ lastRet' = NoRet]_vars
    /\ [][lastOp' = "check" =>
            /\ nmstable' = nmstable
            /\ lastRet' = BoolRet(lastArg'.str \in HostSet(nmstable))]_vars

\* after 127.0.0.1 was removed and two hosts added, a list naming one
\* host twice is removed
C12_Witness ==
    /\ lastOp = "remove"
    /\ lastArg.type = "list"
    /\ lastArg.strs = <<"10.0.0.1", "10.0.0.1">>
    /\ nmstable = <<"10.0.0.2">>

(***************************************************************************)
(* SpecIdentity: construction, set, bulk update and get on the             *)
(* identification entries                                                  *)
(***************************************************************************)
IdentityKeys == {0, 6, 7, 8, 9, 127, 128, 255}

\* the info argument of the constructor: dicts, and None
IdentityInfos ==
    {Arg("dict", "", 0, <<>>, (0 :> "y") @@ (7 :> "y") @@ (8 :> "y")),
     Arg("dict", "", 0, <<>>, (6 :> "y") @@ (9 :> "y") @@ (128 :> "y")),
     Arg("dict", "", 0, <<>>, (127 :> "y") @@ (255 :> "y")),
     Arg("None", "", 0, <<>>, <<>>)}

\* the input argument of update
IdentityUpdates == {(7 :> "x"), (0 :> "x") @@ (8 :> "x") @@ (128 :> "x")}

\* ModbusDeviceIdentification(info)
IdentityNew ==
    \E info \in IdentityInfos :
        /\ identity' = ModbusDeviceIdentification_init(identity, info)
        /\ lastArg' = info
        /\ lastRet' = NoRet
        /\ lastOp' = "newIdentity"
        /\ UNCHANGED <<pduVars, codecVars, events, counters, diagnostic, mode,
                       delimiter, listen_only, nadded, nsince, updated,
                       acVars, concVars>>

\* identity[key] = value
IdentitySet ==
    \E key \in IdentityKeys, value \in {"y"} :
        /\ identity' = ModbusDeviceIdentification_setitem(identity, key, value)
        /\ lastArg' = Arg("item", value, key, <<>>, <<>>)
        /\ lastRet' = NoRet
        /\ lastOp' = "setIdentity"
        /\ UNCHANGED <<pduVars, codecVars, events, counters, diagnostic, mode,
                       delimiter, listen_only, nadded, nsince, updated,
                       acVars, concVars>>

\* identity.update(input)
IdentityUpdate ==
    \E input \in IdentityUpdates :
        /\ identity' = ModbusDeviceIdentification_update(identity, input)
        /\ lastArg' = Arg("dict", "", 0, <<>>, input)
        /\ lastRet' = NoRet
        /\ lastOp' = "updateIdentity"
        /\ UNCHANGED <<pduVars, codecVars, events, counters, diagnostic, mode,
                       delimiter, listen_only, nadded, nsince, updated,
                       acVars, concVars>>

\* identity[key]
IdentityGet ==
    \E key \in IdentityKeys :
        LET out == ModbusDeviceIdentification_getitem(identity, key)
        IN /\ identity' = out.data
           /\ lastArg' = Arg("int", "", key, <<>>, <<>>)
           /\ lastRet' = StrRet(out.ret)
           /\ lastOp' = "getIdentity"
           /\ UNCHANGED <<pduVars, codecVars, events, counters, diagnostic,
                          mode, delimiter, listen_only, nadded, nsince,
                          updated, acVars, concVars>>

IdentityNext ==
    \/ IdentityNew
    \/ IdentitySet
    \/ IdentityUpdate
    \/ IdentityGet

SpecIdentity == Init /\ [][IdentityNext]_vars

\* C13 as stated: whatever operations ran, keys 7 and 8 hold their initial
\* values.
C13_ReservedNeverSet == identity[7] = "" /\ identity[8] = ""

\* C13, amended: construction, the set of one key and get leave the values
\* at keys 7 and 8 as they were; a bulk update overwrites them with the
\* values its argument gives for them.
C13_ReservedSetOnlyByUpdate ==
    /\ [][lastOp' \in {"newIdentity", "setIdentity", "getIdentity"} =>
            identity'[7] = identity[7] /\ identity'[8] = identity[8]]_vars
    /\ [][lastOp' = "updateIdentity" =>
            \A k \in {7, 8} :
                identity'[k] =
                    IF k \in DOMAIN lastArg'.strs THEN lastArg'.strs[k]
                    ELSE identity[k]]_vars

\* key 7 was bulk-updated to "x", then a set of key 7 to "y" was ignored
C13_Witness ==
    /\ lastOp = "setIdentity"
    /\ lastArg.int = 7 /\ lastArg.str = "y"
    /\ identity[7] = "x"
    /\ identity[8] = ""

\* C14: a get of a key with no entry returns "" and adds the entry (k, ""),
\* so iteration then yields (k, ""), and leaves the other entries as they
\* were; a get of a key that has an entry returns its value and changes
\* nothing, so a repeated get returns the same value.
C14_GetMaterializes ==
    [][lastOp' = "getIdentity" =>
        LET k == lastArg'.int
            items == ModbusDeviceIdentification_iter(identity)
            items2 == ModbusDeviceIdentification_iter(identity')
        IN /\ k \notin DOMAIN identity =>
                  /\ lastRet' = StrRet("")
                  /\ items2 = items \cup {<<k, "">>}
           /\ k \in DOMAIN identity =>
                  /\ lastRet' = StrRet(identity[k])
                  /\ identity' = identity
           /\ ModbusDeviceIdentification_getitem(identity', k).ret = lastRet'.str
           /\ ModbusDeviceIdentification_getitem(identity', k).data = identity']_vars

\* a get of key 255, never set, has just added the entry (255, "") next to
\* a stored entry
C14_Witness ==
    /\ lastOp = "getIdentity"
    /\ lastArg.int = 255
    /\ lastRet = StrRet("")
    /\ <<255, "">> \in ModbusDeviceIdentification_iter(identity)
    /\ <<9, "y">> \in ModbusDeviceIdentification_iter(identity)
    /\ 128 \notin DOMAIN identity

\* C15: constructing from a dict stores the entry of every key in
\* 0x00..0x06 and 0x80..0xFF and stores nothing for any other key.
C15_ConstructorFilter ==
    [][lastOp' = "newIdentity" /\ lastArg'.type = "dict" =>
        \A key \in IdentityKeys :
            IF key \in DOMAIN lastArg'.strs /\ key \in (0..6) \cup (128..255)
            THEN key \in DOMAIN identity' /\ identity'[key] = lastArg'.strs[key]
            ELSE /\ key \in DOMAIN identity' <=> key \in DOMAIN identity
                 /\ key \in DOMAIN identity => identity'[key] = identity[key]]_vars

(***************************************************************************)
(* Properties of the mode, the delimiter and the diagnostic bits (checked  *)
(* under SpecCB)                                                           *)
(***************************************************************************)
\* the state of the control block that its operations can read or write
CBState == <<events, counters, diagnostic, mode, delimiter, listen_only, identity>>

\* C16: the mode is "ASCII" or "RTU" in every state; assigning "ASCII" or
\* "RTU" makes the mode that value; assigning anything else raises nothing
\* and leaves the mode and the rest of the control block as they were.
C16_Mode ==
    /\ [](mode \in {"ASCII", "RTU"})
    /\ [][lastOp' = "setMode" =>
            /\ lastRet' = NoRet
            /\ IF lastArg'.str \in {"ASCII", "RTU"}
               THEN mode' = lastArg'.str
               ELSE CBState' = CBState]_vars

\* "TCP" was assigned to a control block in mode RTU
C16_Witness ==
    /\ lastOp = "setMode"
    /\ lastArg.str = "TCP"
    /\ mode = "RTU"

\* C17: the delimiter is one character in every state.
C17_DelimiterSingleChar == Len(delimiter) = 1

\* C18: the diagnostic register is 16 booleans in every state;
\* setDiagnostic sets bit i to (value # 0) for every entry of its mapping
\* with 0 <= i <= 15, ignores the other entries and leaves the other bits;
\* getDiagnostic(i) returns bit i for 0 <= i <= 15 and None otherwise, and
\* changes nothing.
C18_Diagnostic ==
    /\ [](/\ DOMAIN diagnostic = 0..15
          /\ \A i \in 0..15 : diagnostic[i] \in BOOLEAN)
    /\ [][lastOp' = "setDiagnostic" =>
            \A i \in 0..15 :
                diagnostic'[i] = IF i \in DOMAIN lastArg'.ints
                                 THEN lastArg'.ints[i] # 0
                                 ELSE diagnostic[i]]_vars
    /\ [][lastOp' = "getDiagnostic" =>
            /\ lastRet' = IF lastArg'.int \in 0..15
                          THEN BoolRet(diagnostic[lastArg'.int])
                          ELSE NoRet
            /\ CBState' = CBState]_vars

\* bits 0 and 15 were set, an entry for index -1 was ignored, and
\* getDiagnostic(15) has returned True
C18_Witness ==
    /\ lastOp = "getDiagnostic"
    /\ lastArg.int = 15
    /\ lastRet = BoolRet(TRUE)
    /\ diagnostic[15] /\ ~diagnostic[0] /\ ~diagnostic[14]

(***************************************************************************)
(* Properties of decode on a write-multiple request (checked under Spec)   *)
(***************************************************************************)
\* the fields of the buffer decoded last
WireAddress == UnpackH(Slice(wire, 0, 2))
WireCount == UnpackH(Slice(wire, 2, 4))

\* the buffer is an address, a count N, the byte count 2N and N values
FramedBuffer ==
    /\ WellFramed(wire)
    /\ wire[5] = 2 * WireCount
    /\ Len(wire) = 5 + 2 * WireCount

\* C19: after decode of a buffer made of an address, a count N, the byte
\* count 2N and N values, the request has that address, the byte count 2N
\* and exactly the N values as registers, whatever it held before; so it
\* encodes to the same buffer and, for 1 <= N <= 123, passes the count and
\* byte-count checks of execute.
C19_DecodeReplaces ==
    (lastOp = "decode" /\ IsMulti /\ FramedBuffer) =>
        /\ req.address = WireAddress
        /\ req.byte_count = 2 * WireCount
        /\ req.registers = DecodeRegisters(wire, WireCount)
        /\ WriteMultipleRegistersRequest_encode(req) = wire
        /\ (1 <= WireCount /\ WireCount <= RegMax) => PassesChecks

(***************************************************************************)
(* SpecHandlers: two request handlers inside addEvent at the same time.    *)
(* addEvent takes no lock; a handler can be suspended between any two of   *)
(* its steps: the insert (line 264), the slice and the assignment of line  *)
(* 265, the read and the write of the Event counter of line 266.           *)
(***************************************************************************)
\* the event handler h passes to addEvent
HandlerEvent(h) == -h

\* handler h moves on to the state named step, one of "idle", "inserted",
\* "sliced", "assigned", "read", "done"
Goto(h, step) == pc' = [pc EXCEPT ![h] = step]

\* addEvent calls made one after the other, before the handlers start
HandlersAddEvent ==
    /\ \A h \in Handlers : pc[h] = "idle"
    /\ AddEvent(MaxEvents)

\* self.__events.insert(0, event)
HandlerInsert ==
    \E h \in Handlers :
        /\ pc[h] = "idle"
        /\ events' = <<HandlerEvent(h)>> \o events
        /\ Goto(h, "inserted")
        /\ nadded' = nadded + 1
        /\ nsince' = nsince + 1
        /\ lastArg' = Arg("int", "", HandlerEvent(h), <<>>, <<>>)
        /\ lastRet' = NoRet
        /\ lastOp' = "insert"
        /\ UNCHANGED <<pduVars, codecVars, counters, diagnostic, mode,
                       delimiter, listen_only, identity, updated, acVars,
                       tmpEvents, tmpCount>>

\* the right-hand side of line 265: self.__events[0:64]
HandlerSlice ==
    \E h \in Handlers :
        /\ pc[h] = "inserted"
        /\ tmpEvents' = [tmpEvents EXCEPT
                             ![h] = SubSeq(events, 1, Min(EventLogMax, Len(events)))]
        /\ Goto(h, "sliced")
        /\ lastOp' = "slice"
        /\ UNCHANGED <<pduVars, codecVars, cbVars, acVars, tmpCount, callVars>>

\* the assignment of line 265: self.__events = ...
HandlerAssign ==
    \E h \in Handlers :
        /\ pc[h] = "sliced"
        /\ events' = tmpEvents[h]
        /\ Goto(h, "assigned")
        /\ lastOp' = "assign"
        /\ UNCHANGED <<pduVars, codecVars, counters, diagnostic, mode,
                       delimiter, listen_only, identity, nadded, nsince,
                       updated, acVars, tmpEvents, tmpCount, callVars>>

\* the read of line 266: self.Counter.Event
HandlerRead ==
    \E h \in Handlers :
        /\ pc[h] = "assigned"
        /\ tmpCount' = [tmpCount EXCEPT ![h] = counters[EventCounter]]
        /\ Goto(h, "read")
        /\ lastOp' = "read"
        /\ UNCHANGED <<pduVars, codecVars, cbVars, acVars, tmpEvents, callVars>>

\* the write of line 266: self.Counter.Event = ... + 1
HandlerWrite ==
    \E h \in Handlers :
        /\ pc[h] = "read"
        /\ counters' = [counters EXCEPT ![EventCounter] = tmpCount[h] + 1]
        /\ Goto(h, "done")
        /\ lastOp' = "write"
        /\ UNCHANGED <<pduVars, codecVars, events, diagnostic, mode,
                       delimiter, listen_only, identity, nadded, nsince,
                       updated, acVars, tmpEvents, tmpCount, callVars>>

HandlersNext ==
    \/ HandlersAddEvent
    \/ HandlerInsert
    \/ HandlerSlice
    \/ HandlerAssign
    \/ HandlerRead
    \/ HandlerWrite

SpecHandlers == Init /\ [][HandlersNext]_vars

\* the addEvent calls made before the two handlers started
CallsBefore == nadded - Cardinality(Handlers)

\* C20: when both handlers have returned from addEvent, the Event counter
\* has grown by two and, if the log held at most 62 events before, the log
\* holds both events, however their steps were interleaved.
C20_NoLostUpdate ==
    (\A h \in Handlers : pc[h] = "done") =>
        /\ counters[EventCounter] = CallsBefore + 2
        /\ CallsBefore <= EventLogMax - 2 =>
               \A h \in Handlers : InLog(HandlerEvent(h))

(***************************************************************************)
(* SpecListen: the listen-only status under its setter, reset, addEvent    *)
(* and counter updates                                                     *)
(***************************************************************************)
\* the values assigned to ListenOnly: True, False and None (a bool is the
\* integer 1 or 0)
ListenOnlyInputs ==
    {Arg("bool", "", 1, <<>>, <<>>),
     Arg("bool", "", 0, <<>>, <<>>),
     Arg("None", "", 0, <<>>, <<>>)}

\* ControlBlock.ListenOnly = value
SetListenOnly ==
    \E value \in ListenOnlyInputs :
        /\ SetCB(ModbusControlBlock_setListenOnly(CB, value))
        /\ lastOp' = "setListenOnly"
        /\ lastArg' = value
        /\ lastRet' = NoRet
        /\ UNCHANGED <<pduVars, codecVars, nadded, nsince, updated, acVars,
                       concVars>>

ListenNext ==
    \/ SetListenOnly
    \/ Reset
    \/ CBAddEvent
    \/ UpdateCounters

SpecListen == Init /\ [][ListenNext]_vars

\* C21: after a boolean b is assigned to ListenOnly, ListenOnly reads back
\* as b; reset leaves ListenOnly as it was.
C21_ListenOnly ==
    /\ [][(lastOp' = "setListenOnly" /\ lastArg'.type = "bool") =>
            listen_only' = (lastArg'.int = 1)]_vars
    /\ [][lastOp' = "reset" => listen_only' = listen_only]_vars

====
